---- MODULE Spec2Model ----
(***************************************************************************)
(* The line-wrapping and justification engine of src/renderer/layout.rs:   *)
(* calculate_layout = splitter -> packer -> justifier, with the seeded gap *)
(* sampler.  One behaviour lays the same input out twice (two independent  *)
(* invocations of calculate_layout), so that determinism is a property of  *)
(* the state machine.                                                      *)
(*                                                                         *)
(* Text is modelled as a sequence of single-byte characters (str::len and  *)
(* str::split_at count bytes); every character of the input is a distinct  *)
(* symbol <<word index, offset>>, so a dropped, duplicated or reordered    *)
(* character is visible.  The layout code never inspects a character or a  *)
(* style, it only measures, slices and copies.  Multi-byte characters, on  *)
(* which str::split_at can panic off a character boundary, are not         *)
(* modelled.                                                               *)
(*                                                                         *)
(* Two further specifications share the module: SamplerSpec calls          *)
(* get_unique_random_numbers on its own with any arguments, and KeySpec    *)
(* follows a KeybindingsBuilder of src/keybindings.rs through              *)
(* add_keybinding, build and resolve_keys.  Each leaves the variables of   *)
(* the others at rest.                                                     *)
(***************************************************************************)
EXTENDS Integers, Sequences, FiniteSets, TLC

VARIABLES
    screen_width,   \* calculate_layout's screen_width argument
    words,          \* calculate_layout's words argument
    call,           \* which invocation of calculate_layout is running (1 or 2)
    first,          \* outcome of the first invocation, once it has ended
    pc,             \* control point of the running invocation
    wi,             \* flat_map's position in the input words (splitter)
    word,           \* splitter: the closure's `word`
    r,              \* splitter: the closure's `r`
    split_words,    \* the collected result of the splitter
    rest,           \* packer: the slice `words` still to be placed
    line,           \* packer: the WordsInLine under construction
    lines,          \* packer: `lines` / calculate_layout's words_in_lines
    li,             \* calculate_layout: index of the for loop (1-based)
    layout_lines,   \* calculate_layout: layout_lines
    rng,            \* the generator's state: the ranges drawn since seeding
    rngTable,       \* the values the seeded generator yields, fixed once read
    spread,         \* the locals of the last spread_evenly that computed gaps
    sampler,        \* a call of get_unique_random_numbers: arguments and outcome
    keybindings,    \* KeybindingsBuilder / Keybindings: the field `keybindings`
    kpc,            \* what has become of the builder
    adding,         \* the arguments of the last add_keybinding
    keys,           \* the argument of the last resolve_keys
    resolution      \* the KeybindingResolution the last resolve_keys returned

layout_vars == <<screen_width, words, call, first, pc, wi, word, r, split_words, rest,
                 line, lines, li, layout_lines, rng, rngTable, spread>>

key_vars == <<keybindings, kpc, adding, keys, resolution>>

vars == <<layout_vars, sampler, key_vars>>

----------------------------------------------------------------------------
(* Bounds of the model. *)

\* The widest screen.
MaxWidth == 10

\* The longest input: the characters of all words together.
MaxText == 8

\* The largest `start` and `end`, and the largest `count`, of a call of the
\* sampler on its own.
MaxEnd == 4

\* Capacity after which the model stops following the growth of the
\* splitter's vector `r`; only a loop that makes no progress reaches it.
MaxChunks == MaxText

----------------------------------------------------------------------------
(* Data types. *)

Style(b, i, c) == [bold |-> b, italic |-> i, code |-> c]

DefaultStyle == Style(FALSE, FALSE, FALSE)

StyleOf(i) == Style(i % 2 = 1, (i \div 2) % 2 = 1, (i \div 4) % 2 = 1)

StyledWord(t, s) == [text |-> t, style |-> s]

NoWord == StyledWord(<<>>, DefaultStyle)

Word(w) == [kind |-> "Word", text |-> w.text, style |-> w.style, count |-> 0]

Whitespace(n) == [kind |-> "Whitespace", text |-> <<>>, style |-> DefaultStyle, count |-> n]

LayoutLine(elements) == [elements |-> elements]

WordsInLine(ws, rs) == [words |-> ws, remaining_space |-> rs]

styled_word_length(w) == Len(w.text)

\* split_styled_word cutting at 0 whatever the index.
split_styled_word_AtStart(w, index) ==
    <<StyledWord(<<>>, w.style), StyledWord(w.text, w.style)>>

\* split_styled_word losing the character at the cut.
split_styled_word_SkipOne(w, index) ==
    <<StyledWord(SubSeq(w.text, 1, index), w.style),
      StyledWord(SubSeq(w.text, index + 2, Len(w.text)), w.style)>>

split_styled_word(w, index) ==
    <<StyledWord(SubSeq(w.text, 1, index), w.style),
      StyledWord(SubSeq(w.text, index + 1, Len(w.text)), w.style)>>

----------------------------------------------------------------------------
(* The gap sampler. *)

\* A swap that copies one way only.
Swap_Copy(s, a, b) == [s EXCEPT ![a] = s[b]]

\* numbers.swap(a, b), on 1-based positions
Swap(s, a, b) == [s EXCEPT ![a] = s[b], ![b] = s[a]]

RECURSIVE SortAscending(_)
SortAscending(s) ==
    IF Len(s) <= 1 THEN s
    ELSE LET t == SortAscending(Tail(s))
             k == Cardinality({j \in 1..Len(t) : t[j] < Head(s)})
         IN SubSeq(t, 1, k) \o <<Head(s)>> \o SubSeq(t, k + 1, Len(t))

\* The sampler handing its numbers over in ascending order.
Reverse_None(s) == s

\* numbers.reverse()
Reverse(s) == [j \in 1..Len(s) |-> s[Len(s) + 1 - j]]

\* The partial shuffle: `draw[i + 1]` is the index_to_swap of iteration i.
RECURSIVE Shuffle(_, _, _)
Shuffle(numbers, draw, i) ==
    IF i >= Len(draw) THEN numbers
    ELSE Shuffle(Swap(numbers, i + 1, draw[i + 1] + 1), draw, i + 1)

\* numbers.resize(count, 0)
Resize(s, count) == [j \in 1..count |-> IF j <= Len(s) THEN s[j] ELSE 0]

get_unique_random_numbers(count, start, end, draw) ==
    LET numbers == [j \in 1..(end - start) |-> start + j - 1]
    IN Reverse(SortAscending(Resize(Shuffle(numbers, draw, 0), count)))

\* A generator kept from the previous sampler call instead of a seeded one.
SeededRng_Stale == rng

\* The generator right after SmallRng::from_seed(SEED).
SeededRng == <<>>

\* The bound of the range of the i-th gen_range (0-based) of one sampler call.
RangeOf(n, i) == n - i

\* The generator's state after the first i draws of a call over n numbers.
RECURSIVE RngAfter(_, _, _)
RngAfter(g, n, i) ==
    IF i = 0 THEN g ELSE Append(RngAfter(g, n, i - 1), RangeOf(n, i - 1))

\* The draws the generator can give to one sampler call: each lies in its
\* range, and a state of the generator already read yields what it yielded.
Draws(g, n, count) ==
    {d \in [1..count -> 0..(n - 1)] :
        \A k \in 1..count :
            /\ d[k] < RangeOf(n, k - 1)
            /\ RngAfter(g, n, k) \in DOMAIN rngTable => rngTable[RngAfter(g, n, k)] = d[k]}

Record(g, n, d) ==
    LET new == {RngAfter(g, n, k) : k \in 1..Len(d)} \ DOMAIN rngTable
    IN rngTable @@ [h \in new |-> d[CHOOSE k \in 1..Len(d) : RngAfter(g, n, k) = h]]

----------------------------------------------------------------------------
(* The justifier. *)

RECURSIVE AlignLeftFrom(_, _)
AlignLeftFrom(ws, i) ==
    IF i >= Len(ws) THEN <<>>
    ELSE <<Word(ws[i + 1])>>
         \o (IF i # Len(ws) - 1 THEN <<Whitespace(1)>> ELSE <<>>)
         \o AlignLeftFrom(ws, i + 1)

\* The trailing whitespace without its guard.
TrailingFill_Always(remaining_space) == <<Whitespace(remaining_space)>>

TrailingFill(remaining_space) ==
    IF remaining_space > 0 THEN <<Whitespace(remaining_space)>> ELSE <<>>

align_left(wil) ==
    LayoutLine(AlignLeftFrom(wil.words, 0) \o TrailingFill(wil.remaining_space))

gaps_between_words(wil) == Len(wil.words) - 1

spaces_per_gap(wil) == wil.remaining_space \div gaps_between_words(wil)

num_extra_spaces(wil) == wil.remaining_space - spaces_per_gap(wil)

\* The for loop of spread_evenly from word i (0-based) on: the elements it
\* pushes and what is left of extra_spaces when it ends.
RECURSIVE SpreadFrom(_, _, _, _)
SpreadFrom(ws, i, per_gap, extra_spaces) ==
    IF i >= Len(ws) THEN [elements |-> <<>>, extra_spaces |-> extra_spaces]
    ELSE LET selected == /\ i # Len(ws) - 1
                         /\ Len(extra_spaces) > 0
                         /\ extra_spaces[Len(extra_spaces)] = i
             gap == IF i = Len(ws) - 1 THEN <<>>
                    ELSE IF selected THEN <<Whitespace(per_gap + 2)>>
                    ELSE <<Whitespace(per_gap + 1)>>
             after == IF selected
                      THEN SubSeq(extra_spaces, 1, Len(extra_spaces) - 1)
                      ELSE extra_spaces
             tail == SpreadFrom(ws, i + 1, per_gap, after)
         IN [elements |-> <<Word(ws[i + 1])>> \o gap \o tail.elements,
             extra_spaces |-> tail.extra_spaces]

NoSpread == [gaps |-> 0, per_gap |-> 0, num_extra |-> 0, extra_spaces |-> <<>>, left |-> <<>>]

----------------------------------------------------------------------------
(* Control points. *)

\* The invocation ended by a panic: a failed assert!, or (debug build) an
\* unsigned subtraction below zero.
Panicked == {"assert_failed", "sub_overflow"}

\* The invocation is over.
Ended == {"returned"} \cup Panicked

\* The model follows the invocation no further: "wrapped" is a release
\* build after an unsigned subtraction below zero, "exhausted" a vector that
\* has outgrown MaxChunks.
Abandoned == {"wrapped", "exhausted"}

\* The sequences of word lengths (each >= 1) of at most `total` characters.
RECURSIVE WordLengths(_)
WordLengths(total) ==
    {<<>>} \cup UNION {{<<k>> \o rem : rem \in WordLengths(total - k)} : k \in 1..total}

\* How the words are styled: all Default::default(), as Markdown::parse and
\* From<&str> make them, or the i-th word StyleOf(i), so that neighbouring
\* words differ in style.
Stylings == {[i \in 1..MaxText |-> DefaultStyle], [i \in 1..MaxText |-> StyleOf(i)]}

\* The arguments `words`: non-empty, whitespace-free words.
InputWords ==
    {[i \in 1..Len(lens) |-> StyledWord([j \in 1..lens[i] |-> <<i, j>>], styling[i])] :
        lens \in WordLengths(MaxText), styling \in Stylings}

\* No call of get_unique_random_numbers from outside the justifier.
NoSample == [status |-> "idle", count |-> 0, start |-> 0, end |-> 0, numbers |-> <<>>]

\* No add_keybinding yet, and no resolve_keys.
NoBinding == [keys |-> <<>>, output |-> "none"]

NoResolution == [kind |-> "none"]

\* No KeybindingsBuilder has been created.
KeysIdle ==
    /\ keybindings = <<>>
    /\ kpc = "idle"
    /\ adding = NoBinding
    /\ keys = <<>>
    /\ resolution = NoResolution

\* calculate_layout is not invoked.
LayoutIdle ==
    /\ screen_width = 0
    /\ words = <<>>
    /\ call = 1
    /\ first = [status |-> "none", layout |-> <<>>]
    /\ pc = "idle"
    /\ wi = 0
    /\ word = NoWord
    /\ r = <<>>
    /\ split_words = <<>>
    /\ rest = <<>>
    /\ line = WordsInLine(<<>>, 0)
    /\ lines = <<>>
    /\ li = 0
    /\ layout_lines = <<>>
    /\ rng = <<>>
    /\ rngTable = <<>>
    /\ spread = NoSpread

Init ==
    /\ screen_width \in 0..MaxWidth
    /\ words \in InputWords
    /\ call = 1
    /\ first = [status |-> "none", layout |-> <<>>]
    /\ pc = "split_next"
    /\ wi = 0
    /\ word = NoWord
    /\ r = <<>>
    /\ split_words = <<>>
    /\ rest = <<>>
    /\ line = WordsInLine(<<>>, 0)
    /\ lines = <<>>
    /\ li = 0
    /\ layout_lines = <<>>
    /\ rng = <<>>
    /\ rngTable = <<>>
    /\ spread = NoSpread
    /\ sampler = NoSample
    /\ KeysIdle

----------------------------------------------------------------------------
(* The splitter: split_words_longer_than_screen_width. *)

\* The loop condition with >= for >.
NeedsSplit_AtWidth(w) == styled_word_length(w) >= screen_width

\* The condition of the while loop.
NeedsSplit(w) == styled_word_length(w) > screen_width

\* flat_map takes the next input word, or collect() ends and the packer starts.
SplitNext ==
    /\ pc = "split_next"
    /\ IF wi < Len(words)
       THEN /\ word' = words[wi + 1]
            /\ r' = <<>>
            /\ wi' = wi + 1
            /\ pc' = "split_loop"
            /\ UNCHANGED rest
       ELSE /\ rest' = split_words
            /\ pc' = "pack_outer"
            /\ UNCHANGED <<word, r, wi>>
    /\ UNCHANGED <<screen_width, words, call, first, split_words, line, lines, li,
                   layout_lines, rng, rngTable, spread>>
    /\ UNCHANGED <<sampler, key_vars>>

\* One iteration of the while loop.
SplitLoop ==
    /\ pc = "split_loop"
    /\ NeedsSplit(word)
    /\ Len(r) < MaxChunks
    /\ LET p == split_styled_word(word, screen_width)
       IN /\ r' = Append(r, p[1])
          /\ word' = p[2]
    /\ UNCHANGED <<screen_width, words, call, first, pc, wi, split_words, rest, line,
                   lines, li, layout_lines, rng, rngTable, spread>>
    /\ UNCHANGED <<sampler, key_vars>>

\* The while loop goes on with `r` beyond MaxChunks.
SplitExhaust ==
    /\ pc = "split_loop"
    /\ NeedsSplit(word)
    /\ Len(r) >= MaxChunks
    /\ pc' = "exhausted"
    /\ UNCHANGED <<screen_width, words, call, first, wi, word, r, split_words, rest,
                   line, lines, li, layout_lines, rng, rngTable, spread>>
    /\ UNCHANGED <<sampler, key_vars>>

\* The while loop ends: r.push(word), and flat_map takes the chunks.
SplitEmit ==
    /\ pc = "split_loop"
    /\ ~NeedsSplit(word)
    /\ split_words' = split_words \o Append(r, word)
    /\ pc' = "split_next"
    /\ UNCHANGED <<screen_width, words, call, first, wi, word, r, rest, line, lines, li,
                   layout_lines, rng, rngTable, spread>>
    /\ UNCHANGED <<sampler, key_vars>>

----------------------------------------------------------------------------
(* The packer: get_words_in_lines. *)

\* The packer closing a line only when the next word is strictly too long.
is_last_word_in_line_Strict(after, remaining_space) ==
    Len(after) = 0 \/ remaining_space < styled_word_length(after[1])

\* let is_last_word_in_line = next.is_none() || remaining_space <= next length
is_last_word_in_line(after, remaining_space) ==
    Len(after) = 0 \/ remaining_space <= styled_word_length(after[1])

\* The packer without the separator's unit.
ReserveSeparator_None(remaining_space) == remaining_space

\* line.remaining_space -= 1
ReserveSeparator(remaining_space) == remaining_space - 1

\* An unsigned subtraction below zero: a panic in a debug build, a wrapped
\* value in a release build.
SubOverflow == {"sub_overflow", "wrapped"}

\* The test of the outer while loop, and a fresh line.
PackOuter ==
    /\ pc = "pack_outer"
    /\ IF Len(rest) > 0
       THEN /\ line' = WordsInLine(<<>>, screen_width)
            /\ pc' = "pack_inner"
            /\ UNCHANGED li
       ELSE /\ li' = 0
            /\ pc' = "justify"
            /\ UNCHANGED line
    /\ UNCHANGED <<screen_width, words, call, first, wi, word, r, split_words, rest,
                   lines, layout_lines, rng, rngTable, spread>>
    /\ UNCHANGED <<sampler, key_vars>>

\* One iteration of the inner loop; on break, lines.push(line).
PackInner ==
    /\ pc = "pack_inner"
    /\ LET w == rest[1]
           placed == line.remaining_space - styled_word_length(w)
           after == Tail(rest)
           last == is_last_word_in_line(after, placed)
           reserved == IF last THEN placed ELSE ReserveSeparator(placed)
           packed == WordsInLine(Append(line.words, w), reserved)
       IN IF placed < 0 \/ reserved < 0
          THEN /\ pc' \in SubOverflow
               /\ UNCHANGED <<rest, line, lines>>
          ELSE /\ line' = packed
               /\ rest' = after
               /\ lines' = IF last THEN Append(lines, packed) ELSE lines
               /\ pc' = IF last THEN "pack_outer" ELSE "pack_inner"
    /\ UNCHANGED <<screen_width, words, call, first, wi, word, r, split_words, li,
                   layout_lines, rng, rngTable, spread>>
    /\ UNCHANGED <<sampler, key_vars>>

----------------------------------------------------------------------------
(* The orchestrator: calculate_layout, with spread_evenly. *)

\* The for loop justifying the last line too.
UseSpreadEvenly_Always(i, n) == TRUE

\* The branch of the for loop: i is the 0-based index, n = words_in_lines.len().
UseSpreadEvenly(i, n) == i # n - 1

\* The asserts of get_unique_random_numbers.
SamplerAccepts(count, start, end) == end >= start /\ count <= end - start

Push(layout_line) ==
    /\ layout_lines' = Append(layout_lines, layout_line)
    /\ li' = li + 1
    /\ pc' = "justify"

SpreadEvenly(wil) ==
    LET gaps == gaps_between_words(wil)
        per_gap == spaces_per_gap(wil)
        extra == num_extra_spaces(wil)
    IN IF Len(wil.words) = 0
       THEN /\ pc' = "assert_failed"
            /\ UNCHANGED <<li, layout_lines, rng, rngTable, spread>>
       ELSE IF Len(wil.words) = 1
       THEN /\ Push(align_left(wil))
            /\ UNCHANGED <<rng, rngTable, spread>>
       ELSE IF ~(extra <= gaps) \/ ~SamplerAccepts(extra, 0, gaps)
       THEN /\ pc' = "assert_failed"
            /\ spread' = [gaps |-> gaps, per_gap |-> per_gap, num_extra |-> extra,
                          extra_spaces |-> <<>>, left |-> <<>>]
            /\ UNCHANGED <<li, layout_lines, rng, rngTable>>
       ELSE \E d \in Draws(SeededRng, gaps, extra) :
               LET extra_spaces == get_unique_random_numbers(extra, 0, gaps, d)
                   out == SpreadFrom(wil.words, 0, per_gap, extra_spaces)
               IN /\ Push(LayoutLine(out.elements))
                  /\ rng' = RngAfter(SeededRng, gaps, extra)
                  /\ rngTable' = Record(SeededRng, gaps, d)
                  /\ spread' = [gaps |-> gaps, per_gap |-> per_gap, num_extra |-> extra,
                                extra_spaces |-> extra_spaces, left |-> out.extra_spaces]

\* One iteration of the for loop of calculate_layout.
JustifyLine ==
    /\ pc = "justify"
    /\ li < Len(lines)
    /\ IF UseSpreadEvenly(li, Len(lines))
       THEN SpreadEvenly(lines[li + 1])
       ELSE /\ Push(align_left(lines[li + 1]))
            /\ UNCHANGED <<rng, rngTable, spread>>
    /\ UNCHANGED <<screen_width, words, call, first, wi, word, r, split_words, rest,
                   line, lines>>
    /\ UNCHANGED <<sampler, key_vars>>

\* The for loop is over: calculate_layout returns layout_lines.
Return ==
    /\ pc = "justify"
    /\ li >= Len(lines)
    /\ pc' = "returned"
    /\ UNCHANGED <<screen_width, words, call, first, wi, word, r, split_words, rest,
                   line, lines, li, layout_lines, rng, rngTable, spread>>
    /\ UNCHANGED <<sampler, key_vars>>

\* What an invocation that ended gave its caller.
Outcome == [status |-> pc, layout |-> IF pc = "returned" THEN layout_lines ELSE <<>>]

\* calculate_layout is invoked again with the same arguments; every local
\* is created afresh, the generator is whatever the sampler makes of it.
Reinvoke ==
    /\ call = 1
    /\ pc \in Ended
    /\ first' = Outcome
    /\ call' = 2
    /\ pc' = "split_next"
    /\ wi' = 0
    /\ word' = NoWord
    /\ r' = <<>>
    /\ split_words' = <<>>
    /\ rest' = <<>>
    /\ line' = WordsInLine(<<>>, 0)
    /\ lines' = <<>>
    /\ li' = 0
    /\ layout_lines' = <<>>
    /\ spread' = NoSpread
    /\ UNCHANGED <<screen_width, words, rng, rngTable>>
    /\ UNCHANGED <<sampler, key_vars>>

Next ==
    \/ SplitNext
    \/ SplitLoop
    \/ SplitExhaust
    \/ SplitEmit
    \/ PackOuter
    \/ PackInner
    \/ JustifyLine
    \/ Return
    \/ Reinvoke

Spec == Init /\ [][Next]_vars

----------------------------------------------------------------------------
(* Measures used by the properties. *)

ElementWidth(e) == IF e.kind = "Word" THEN Len(e.text) ELSE e.count

RECURSIVE SumWidths(_)
SumWidths(elements) ==
    IF elements = <<>> THEN 0 ELSE ElementWidth(Head(elements)) + SumWidths(Tail(elements))

LineWidth(layout_line) == SumWidths(layout_line.elements)

RECURSIVE SumLengths(_)
SumLengths(ws) ==
    IF ws = <<>> THEN 0 ELSE styled_word_length(Head(ws)) + SumLengths(Tail(ws))

\* The packed line that layout line i was rendered from.
LeftAligned(i) == i = Len(lines) \/ Len(lines[i].words) = 1

----------------------------------------------------------------------------
(* C1: for target_width >= 1, every line of a returned layout has word      *)
(* lengths plus whitespace counts equal to target_width exactly, interior  *)
(* lines of three or more words included.                                  *)
C1_EveryLineFillsWidth ==
    (screen_width >= 1 /\ pc = "returned") =>
        \A i \in DOMAIN layout_lines : LineWidth(layout_lines[i]) = screen_width

(* C2: for target_width >= 1 and non-empty words, calculate_layout returns *)
(* a layout: no assert! fails and no unsigned subtraction goes below zero. *)
C2_LayoutSucceeds ==
    screen_width >= 1 => pc \notin Panicked \cup {"wrapped"}

(* C3: no line of the layout holds a Whitespace of count 0: every          *)
(* whitespace counts at least 1, and a left-aligned line whose             *)
(* remaining_space is 0 ends with its last word, not with a Whitespace.    *)
C3_NoZeroWhitespace ==
    \A i \in DOMAIN layout_lines :
        LET es == layout_lines[i].elements
        IN /\ \A k \in DOMAIN es : es[k].kind = "Whitespace" => es[k].count >= 1
           /\ (LeftAligned(i) /\ lines[i].remaining_space = 0) =>
                  es[Len(es)].kind = "Word"

\* A returned layout with a justified line of three words and a last line
\* that fills the width with no trailing whitespace.
C3_Witness ==
    /\ pc = "returned"
    /\ Len(layout_lines) >= 2
    /\ \E i \in 1..(Len(lines) - 1) : Len(lines[i].words) >= 3
    /\ lines[Len(lines)].remaining_space = 0
    /\ Len(lines[Len(lines)].words) >= 2

----------------------------------------------------------------------------
(* Text of a layout and of the input. *)

RECURSIVE ElementsText(_)
ElementsText(elements) ==
    IF elements = <<>> THEN <<>>
    ELSE (IF Head(elements).kind = "Word" THEN Head(elements).text ELSE <<>>)
         \o ElementsText(Tail(elements))

RECURSIVE LayoutText(_)
LayoutText(layout) ==
    IF layout = <<>> THEN <<>>
    ELSE ElementsText(Head(layout).elements) \o LayoutText(Tail(layout))

RECURSIVE WordsText(_)
WordsText(ws) == IF ws = <<>> THEN <<>> ELSE Head(ws).text \o WordsText(Tail(ws))

(* C4: for target_width >= 1, the texts of the Word elements of the        *)
(* returned lines, concatenated in line and element order, are the texts   *)
(* of the input words concatenated in input order.                         *)
C4_TextPreserved ==
    (screen_width >= 1 /\ pc = "returned") =>
        LayoutText(layout_lines) = WordsText(words)

\* A returned layout of three or more lines, one of them with several
\* words, after the splitter has cut a word into three or more chunks.
C4_Witness ==
    /\ pc = "returned"
    /\ screen_width >= 2
    /\ Len(layout_lines) >= 3
    /\ \E i \in DOMAIN words : styled_word_length(words[i]) > 2 * screen_width
    /\ \E i \in DOMAIN lines : Len(lines[i].words) >= 2

(* C5: two invocations of calculate_layout with the same target_width and  *)
(* the same words end the same way: both return the same lines, element    *)
(* for element, or both panic.                                             *)
C5_Deterministic ==
    (call = 2 /\ pc \in Ended) => Outcome = first

\* The second invocation has returned a layout in which the sampler chose
\* among three or more gaps.
C5_Witness ==
    /\ call = 2
    /\ pc = "returned"
    /\ spread.gaps >= 3
    /\ spread.num_extra >= 1
    /\ first.status = "returned"

\* layout_line is the left-aligned rendering of the packed line wil.
IsLeftAligned(layout_line, wil) ==
    LET es == layout_line.elements
        n == Len(wil.words)
        fill == wil.remaining_space
    IN /\ Len(es) = 2 * n - 1 + (IF fill > 0 THEN 1 ELSE 0)
       /\ \A k \in 1..n : es[2 * k - 1] = Word(wil.words[k])
       /\ \A k \in 1..(n - 1) : es[2 * k] = Whitespace(1)
       /\ fill > 0 => es[2 * n] = Whitespace(fill)

(* C6: a packed line that is the last line of the layout or holds exactly  *)
(* one word is rendered left-aligned: its words separated by Whitespace(1) *)
(* and then one trailing Whitespace(remaining_space) iff remaining_space   *)
(* > 0.                                                                    *)
C6_LeftAligned ==
    \A i \in DOMAIN layout_lines :
        LeftAligned(i) => IsLeftAligned(layout_lines[i], lines[i])

\* A returned layout whose last line has two words and space to spare, with
\* a single-word interior line and a justified interior line before it.
C6_Witness ==
    /\ pc = "returned"
    /\ Len(lines) >= 3
    /\ Len(lines[Len(lines)].words) >= 2
    /\ lines[Len(lines)].remaining_space > 0
    /\ \E i \in 1..(Len(lines) - 1) :
          Len(lines[i].words) = 1 /\ lines[i].remaining_space > 0
    /\ \E i \in 1..(Len(lines) - 1) :
          Len(lines[i].words) >= 2 /\ lines[i].remaining_space > 0

----------------------------------------------------------------------------
(* The splitter's and the packer's results. *)

\* The splitter has run to its end in this invocation.
SplitDone == pc \in {"pack_outer", "pack_inner", "justify"} \cup Ended

\* The packer has run to its end in this invocation.
PackDone == pc \in {"justify", "returned", "assert_failed"}

\* ceil(a / b)
CeilDiv(a, b) == (a + b - 1) \div b

Min(a, b) == IF a <= b THEN a ELSE b

\* Chunk j (1-based) of w cut at the multiples of width.
Chunk(w, width, j) ==
    StyledWord(SubSeq(w.text, (j - 1) * width + 1, Min(j * width, Len(w.text))), w.style)

RECURSIVE Chunks(_, _)
Chunks(ws, width) ==
    IF ws = <<>> THEN <<>>
    ELSE [j \in 1..CeilDiv(Len(Head(ws).text), width) |-> Chunk(Head(ws), width, j)]
         \o Chunks(Tail(ws), width)

RECURSIVE LinesWords(_)
LinesWords(ls) == IF ls = <<>> THEN <<>> ELSE Head(ls).words \o LinesWords(Tail(ls))

\* Width taken by the first n words of ws, each followed by one separator.
Taken(ws, n) == SumLengths(SubSeq(ws, 1, n)) + n

(* C8: the packer is greedy first-fit: every line holds at least one word, *)
(* the lines hold the split words in stream order, a word follows another  *)
(* on a line only if the words before it, one separator for each of them,  *)
(* and the word itself are at most target_width, and the first word of the *)
(* next line would not have fitted on the line before it.                  *)
C8_GreedyFirstFit ==
    screen_width >= 1 =>
        /\ \A i \in DOMAIN lines :
              LET ws == lines[i].words
              IN /\ Len(ws) >= 1
                 /\ \A n \in 1..(Len(ws) - 1) :
                       Taken(ws, n) + styled_word_length(ws[n + 1]) <= screen_width
                 /\ i < Len(lines) =>
                       Taken(ws, Len(ws)) + styled_word_length(lines[i + 1].words[1])
                           > screen_width
        /\ PackDone => LinesWords(lines) = split_words

\* The packer is done with three or more lines: one holds three words, and
\* one was closed before a word that is exactly as long as the space left,
\* which fits only without its separator.
C8_Witness ==
    /\ PackDone
    /\ Len(lines) >= 3
    /\ \E i \in DOMAIN lines : Len(lines[i].words) >= 3
    /\ \E i \in 1..(Len(lines) - 1) :
          /\ lines[i].remaining_space >= 1
          /\ styled_word_length(lines[i + 1].words[1]) = lines[i].remaining_space

\* The while loop of the splitter is about to run an iteration that leaves
\* `word` as it is: the loop's condition reads only `word` and screen_width,
\* so the loop never ends.
RunsForever ==
    /\ pc = "split_loop"
    /\ NeedsSplit(word)
    /\ split_styled_word(word, screen_width)[2] = word

(* C9: calculate_layout with target_width = 0 and at least one non-empty   *)
(* word is rejected by a fatal assertion: it does not return a layout and  *)
(* does not keep running.                                                  *)
C9_ZeroWidthRejected ==
    (screen_width = 0 /\ words # <<>>) =>
        /\ pc # "returned"
        /\ pc # "exhausted"
        /\ ~RunsForever

\* Both invocations are over.
Finished == call = 2 /\ pc \in Ended

\* Steps a justifier that is at line li of the packed lines has left, at most.
JustifyLeft == 1 + Len(lines) - li

\* Steps a packer with `rest` to place has left, at most, the justifier's
\* included: two for each word (it may open a line) and one for each line.
PackLeft(inner) == 3 * Len(rest) + Len(lines) + 2 + (IF inner THEN 0 ELSE 1)

\* Steps a splitter has left, at most, the packer's included: three for each
\* character not yet emitted (each may become a word of its own), and each
\* emitted word is still to be packed.
SplitLeft(in_loop) ==
    6 * (SumLengths(SubSeq(words, wi + 1, Len(words)))
             + (IF in_loop THEN styled_word_length(word) ELSE 0))
        + 3 * (Len(split_words) + (IF in_loop THEN Len(r) ELSE 0))
        + 4 - (IF in_loop THEN 1 ELSE 0)

\* Steps the running invocation has left, at most.
StepsLeft ==
    CASE pc = "split_next" -> SplitLeft(FALSE)
      [] pc = "split_loop" -> SplitLeft(TRUE)
      [] pc = "pack_outer" -> PackLeft(FALSE)
      [] pc = "pack_inner" -> PackLeft(TRUE)
      [] pc = "justify" -> JustifyLeft
      [] OTHER -> 0

\* Steps the behaviour has left, at most: a second invocation takes no more
\* than 6 * MaxText + 4 steps, and one step starts it.
Measure == StepsLeft + (IF call = 1 THEN 6 * MaxText + 5 ELSE 0)

\* ENABLED JustifyLine, spelled out: the for loop has a line to render, and
\* where it samples the generator has a draw to give.
JustifyLineEnabled ==
    /\ pc = "justify"
    /\ li < Len(lines)
    /\ LET wil == lines[li + 1]
       IN (/\ UseSpreadEvenly(li, Len(lines))
           /\ Len(wil.words) >= 2
           /\ num_extra_spaces(wil) <= gaps_between_words(wil)) =>
              Draws(SeededRng, gaps_between_words(wil), num_extra_spaces(wil)) # {}

\* The invocation can take a step.
CanStep ==
    \/ ENABLED (SplitNext \/ SplitLoop \/ SplitExhaust \/ SplitEmit \/ PackOuter \/ PackInner)
    \/ JustifyLineEnabled
    \/ ENABLED (Return \/ Reinvoke)

(* C10: for target_width >= 1 every invocation of calculate_layout comes   *)
(* to an end: an iteration of the splitter's loop shortens the current     *)
(* word by target_width, an iteration of the packer's inner loop takes one *)
(* word off the stream and every iteration of its outer loop runs the      *)
(* inner loop; every step lowers a measure that is a natural number, and a *)
(* step is possible until the invocation is over.                          *)
C10_Terminates ==
    /\ [][(SplitLoop /\ screen_width >= 1) =>
             styled_word_length(word') = styled_word_length(word) - screen_width]_vars
    /\ [][(PackInner /\ screen_width >= 1) => Len(rest') = Len(rest) - 1]_vars
    /\ [][(PackOuter /\ screen_width >= 1 /\ Len(rest) > 0) => pc' = "pack_inner"]_vars
    /\ [][screen_width >= 1 =>
             (Measure \in Nat /\ Measure' \in Nat /\ Measure' < Measure)]_vars
    /\ [](screen_width >= 1 => (Finished \/ CanStep))

\* The second invocation has ended after the splitter's loop has iterated
\* twice on one word and the packer has put two words on a line.
C10_Witness ==
    /\ Finished
    /\ screen_width >= 1
    /\ \E i \in DOMAIN words : styled_word_length(words[i]) > 2 * screen_width
    /\ \E i \in DOMAIN lines : Len(lines[i].words) >= 2

----------------------------------------------------------------------------
(* The arithmetic of spread_evenly. *)

\* The packed lines spread_evenly has computed its gaps for in this
\* invocation: the interior lines of two words or more the for loop has
\* reached, the one its assert! failed on included.
SpreadLines ==
    IF ~PackDone THEN {}
    ELSE {i \in DOMAIN lines :
            /\ UseSpreadEvenly(i - 1, Len(lines))
            /\ Len(lines[i].words) >= 2
            /\ \/ i <= li
               \/ i = li + 1 /\ pc = "assert_failed"}

(* C13: in spread_evenly with gaps_between_words >= 1, num_extra_spaces is *)
(* remaining_space - gaps * (remaining_space / gaps), the remainder of     *)
(* remaining_space by the number of gaps, and lies in [0, gaps), for every *)
(* remaining_space and every number of gaps, more than one gap included.   *)
C13_ExtraSpacesIsRemainder ==
    \A i \in SpreadLines :
        LET wil == lines[i]
            gaps == gaps_between_words(wil)
        IN gaps >= 1 =>
             /\ num_extra_spaces(wil)
                    = wil.remaining_space - gaps * (wil.remaining_space \div gaps)
             /\ num_extra_spaces(wil) = wil.remaining_space % gaps
             /\ num_extra_spaces(wil) \in 0..(gaps - 1)
             /\ (i = li /\ spread.gaps = gaps) =>
                    spread.num_extra = wil.remaining_space % gaps

----------------------------------------------------------------------------
(* The packer's bookkeeping. *)

\* remaining_space as the words of a line account for it: the width less the
\* word lengths less `separators` units.
SpaceLeft(ws, separators) == screen_width - SumLengths(ws) - separators

(* C14: for target_width >= 1, every WordsInLine of get_words_in_lines has *)
(* remaining_space = target_width - (sum of its word lengths) - (number of *)
(* its words - 1), and no subtraction from remaining_space, of a word's    *)
(* length or of a separator's unit, takes it below zero: the line being    *)
(* filled has a natural number left too, one unit reserved after each of   *)
(* its words.                                                              *)
C14_RemainingSpaceAccounted ==
    screen_width >= 1 =>
        /\ pc \notin SubOverflow
        /\ \A i \in DOMAIN lines :
              /\ lines[i].remaining_space
                     = SpaceLeft(lines[i].words, Len(lines[i].words) - 1)
              /\ lines[i].remaining_space \in Nat
        /\ pc = "pack_inner" =>
              /\ line.remaining_space = SpaceLeft(line.words, Len(line.words))
              /\ line.remaining_space \in Nat

\* The packer has run to its end and has closed a line of three words, a
\* line of several words that is full to the last column, and a line that
\* has space left.
C14_Witness ==
    /\ PackDone
    /\ screen_width >= 1
    /\ \E i \in DOMAIN lines : Len(lines[i].words) >= 3
    /\ \E i \in DOMAIN lines :
          Len(lines[i].words) >= 2 /\ lines[i].remaining_space = 0
    /\ \E i \in DOMAIN lines : lines[i].remaining_space > 0

\* The gaps of a layout line rendered from n words: its whitespace counts
\* in order.
GapsOf(layout_line, n) == [k \in 1..(n - 1) |-> layout_line.elements[2 * k].count]

(* C16: in spread_evenly every gap position the sampler returns is         *)
(* applied: the for loop visits the word indices in ascending order and    *)
(* takes positions off the end of the sampler's result, nothing is left of *)
(* the result when the last word has been emitted, and so exactly          *)
(* num_extra_spaces gaps are spaces_per_gap + 2 wide, at the positions     *)
(* sampled, and all the others spaces_per_gap + 1.                         *)
C16_EverySampledGapApplied ==
    /\ spread.left = <<>>
    /\ spread.num_extra <= spread.gaps => Len(spread.extra_spaces) = spread.num_extra
    /\ \A i \in SpreadLines :
          i <= Len(layout_lines) =>
             LET wil == lines[i]
                 n == Len(wil.words)
                 gap == GapsOf(layout_lines[i], n)
                 wide == {k \in 1..(n - 1) : gap[k] = spaces_per_gap(wil) + 2}
                 narrow == {k \in 1..(n - 1) : gap[k] = spaces_per_gap(wil) + 1}
             IN /\ Len(layout_lines[i].elements) = 2 * n - 1
                /\ Cardinality(wide) = num_extra_spaces(wil)
                /\ wide \cup narrow = 1..(n - 1)
                /\ (i = li /\ spread.gaps = n - 1) =>
                       wide = {spread.extra_spaces[k] + 1 : k \in DOMAIN spread.extra_spaces}

\* A layout has been returned whose last justified line has three gaps, two
\* of them sampled for the extra space and one not.
C16_Witness ==
    /\ pc = "returned"
    /\ spread.gaps >= 3
    /\ spread.num_extra = 2
    /\ Len(spread.extra_spaces) = 2
    /\ spread.left = <<>>
    /\ SpreadLines # {}

----------------------------------------------------------------------------
(* get_unique_random_numbers called on its own, with any arguments. *)

SamplerInit ==
    /\ LayoutIdle
    /\ KeysIdle
    /\ sampler \in {[status |-> "called", count |-> c, start |-> a, end |-> b,
                     numbers |-> <<>>] :
                        c \in 0..MaxEnd, a \in 0..MaxEnd, b \in 0..MaxEnd}

\* One of the two asserts fails.
SamplerReject ==
    /\ sampler.status = "called"
    /\ ~SamplerAccepts(sampler.count, sampler.start, sampler.end)
    /\ sampler' = [sampler EXCEPT !.status = "assert_failed"]
    /\ UNCHANGED <<layout_vars, key_vars>>

\* The body: the generator is seeded, draws `count` swap indices, whatever
\* they are, and the numbers are returned.
SamplerReturn ==
    /\ sampler.status = "called"
    /\ SamplerAccepts(sampler.count, sampler.start, sampler.end)
    /\ LET n == sampler.end - sampler.start
       IN \E d \in Draws(SeededRng, n, sampler.count) :
             /\ sampler' = [sampler EXCEPT
                               !.status = "returned",
                               !.numbers = get_unique_random_numbers(
                                              sampler.count, sampler.start, sampler.end, d)]
             /\ rng' = RngAfter(SeededRng, n, sampler.count)
             /\ rngTable' = Record(SeededRng, n, d)
    /\ UNCHANGED <<screen_width, words, call, first, pc, wi, word, r, split_words, rest,
                   line, lines, li, layout_lines, spread>>
    /\ UNCHANGED key_vars

SamplerNext ==
    \/ SamplerReject
    \/ SamplerReturn

SamplerSpec == SamplerInit /\ [][SamplerNext]_vars

(* C15: for start <= end and count <= end - start,                         *)
(* get_unique_random_numbers(count, start, end) returns, and returns       *)
(* exactly count integers, pairwise distinct, each in [start, end),        *)
(* whatever the seeded generator yields for the swap indices.              *)
C15_SampleDistinctInRange ==
    /\ (sampler.start <= sampler.end /\ sampler.count <= sampler.end - sampler.start) =>
           sampler.status # "assert_failed"
    /\ sampler.status = "returned" =>
           /\ Len(sampler.numbers) = sampler.count
           /\ \A j \in DOMAIN sampler.numbers :
                 sampler.numbers[j] \in sampler.start..(sampler.end - 1)
           /\ \A j, k \in DOMAIN sampler.numbers :
                 j # k => sampler.numbers[j] # sampler.numbers[k]

\* The sampler has returned two numbers or more out of a longer range that
\* does not start at 0, one of them swapped in from beyond the first `count`.
C15_Witness ==
    /\ sampler.status = "returned"
    /\ sampler.start >= 1
    /\ sampler.count >= 2
    /\ sampler.count < sampler.end - sampler.start
    /\ \E j \in DOMAIN sampler.numbers : sampler.numbers[j] >= sampler.start + sampler.count

----------------------------------------------------------------------------
(* src/keybindings.rs: KeybindingsBuilder and Keybindings::resolve_keys. *)

\* The bindings a builder is given, at most, the rejected one aside.
MaxBindings == 2

\* The keys of all the bindings of a builder together, at most.
MaxBoundKeys == 3

\* The longest sequence of pressed keys resolve_keys is given.
MaxPressed == 2

Key(character, control, shift) ==
    [character |-> character, control |-> control, shift |-> shift]

\* The keys of the model: two characters, and one of them with control or
\* with shift.
PressableKeys ==
    {Key("j", FALSE, FALSE), Key("j", FALSE, TRUE), Key("j", TRUE, FALSE),
     Key("k", FALSE, FALSE)}

\* The values bound to key sequences.
Outputs == {"A", "B"}

KeySequences(n) == UNION {[1..l -> PressableKeys] : l \in 0..n}

Keybinding(ks, output) == [keys |-> ks, output |-> output]

\* An equality of keys that does not look at shift.
Key_eq_NoShift(a, b) == a.character = b.character /\ a.control = b.control

\* #[derive(PartialEq)] on Key: every field is compared.
Key_eq(a, b) == a.character = b.character /\ a.control = b.control /\ a.shift = b.shift

\* Vec<Key> == Vec<Key>
Keys_eq(a, b) == Len(a) = Len(b) /\ \A i \in 1..Len(a) : Key_eq(a[i], b[i])

\* The first filter without its test.
LongEnough_Any(keybinding, ks) == TRUE

\* keybinding.keys.len() >= keys.len()
LongEnough(keybinding, ks) == Len(keybinding.keys) >= Len(ks)

\* keybinding.keys.iter().zip(keys.iter()).all(|(a, b)| a == b): zip stops
\* at the end of the shorter sequence.
ZipAllEqual(keybinding, ks) ==
    \A i \in 1..Min(Len(keybinding.keys), Len(ks)) : Key_eq(keybinding.keys[i], ks[i])

Resolved(output) == [kind |-> "Resolved", output |-> output]

AwaitingNextKey == [kind |-> "AwaitingNextKey"]

NoKeybinding == [kind |-> "NoKeybinding"]

resolve_keys(bindings, ks) ==
    LET First(keybinding) == LongEnough(keybinding, ks)
        Second(keybinding) == ZipAllEqual(keybinding, ks)
        SameLength(keybinding) == Len(keybinding.keys) = Len(ks)
        matching_keybindings == SelectSeq(SelectSeq(bindings, First), Second)
        found == SelectSeq(matching_keybindings, SameLength)
    IN IF found # <<>> THEN Resolved(found[1].output)
       ELSE IF matching_keybindings = <<>> THEN NoKeybinding
       ELSE AwaitingNextKey

\* self.keybindings.iter().any(|k| keybinding.keys == k.keys)
IsDuplicate(bindings, ks) == \E i \in DOMAIN bindings : Keys_eq(ks, bindings[i].keys)

RECURSIVE BoundKeys(_)
BoundKeys(bindings) ==
    IF bindings = <<>> THEN 0 ELSE Len(Head(bindings).keys) + BoundKeys(Tail(bindings))

\* KeybindingsBuilder::new()
KeyInit ==
    /\ LayoutIdle
    /\ sampler = NoSample
    /\ keybindings = <<>>
    /\ kpc = "building"
    /\ adding = NoBinding
    /\ keys = <<>>
    /\ resolution = NoResolution

\* add_keybinding(self, keys, output): Err, and the builder is gone with
\* it, or Ok(self) with the binding pushed.
AddKeybinding ==
    /\ kpc = "building"
    /\ \E ks \in KeySequences(MaxBoundKeys), output \in Outputs :
          /\ \/ IsDuplicate(keybindings, ks)
             \/ /\ Len(keybindings) < MaxBindings
                /\ BoundKeys(keybindings) + Len(ks) <= MaxBoundKeys
          /\ adding' = Keybinding(ks, output)
          /\ IF IsDuplicate(keybindings, ks)
             THEN /\ kpc' = "add_failed"
                  /\ UNCHANGED keybindings
             ELSE /\ keybindings' = Append(keybindings, Keybinding(ks, output))
                  /\ UNCHANGED kpc
    /\ UNCHANGED <<keys, resolution, layout_vars, sampler>>

\* build(self)
Build ==
    /\ kpc = "building"
    /\ kpc' = "built"
    /\ UNCHANGED <<keybindings, adding, keys, resolution, layout_vars, sampler>>

\* resolve_keys(&self, keys): it reads the bindings and changes nothing, so
\* one call on the built Keybindings is followed.
ResolveKeys ==
    /\ kpc = "built"
    /\ \E ks \in KeySequences(MaxPressed) :
          /\ keys' = ks
          /\ resolution' = resolve_keys(keybindings, ks)
    /\ kpc' = "resolved"
    /\ UNCHANGED <<keybindings, adding, layout_vars, sampler>>

KeyNext ==
    \/ AddKeybinding
    \/ Build
    \/ ResolveKeys

KeySpec == KeyInit /\ [][KeyNext]_vars

\* A binding whose key sequence is `ks`, compared key by key on character,
\* control and shift.
IsExact(keybinding, ks) == keybinding.keys = ks

\* A binding whose key sequence is longer than `ks` and starts with it.
IsContinuation(keybinding, ks) ==
    /\ Len(keybinding.keys) > Len(ks)
    /\ SubSeq(keybinding.keys, 1, Len(ks)) = ks

(* C11: for bindings built through KeybindingsBuilder and any sequence of  *)
(* pressed keys, the empty one included, resolve_keys returns Resolved(the *)
(* output of B) exactly when some binding B has the pressed keys as its    *)
(* key sequence (character, shift and control all compared), even when     *)
(* longer bindings start with the pressed keys too; otherwise              *)
(* AwaitingNextKey exactly when some binding's key sequence has the        *)
(* pressed keys as a strict prefix; otherwise NoKeybinding, which is the   *)
(* answer for every pressed sequence when there are no bindings.           *)
C11_ResolveKeys ==
    resolution # NoResolution =>
        LET exact == {i \in DOMAIN keybindings : IsExact(keybindings[i], keys)}
            longer == {i \in DOMAIN keybindings : IsContinuation(keybindings[i], keys)}
        IN /\ exact # {} =>
                 \E i \in exact : /\ resolution = Resolved(keybindings[i].output)
                                  /\ \A j \in exact : j = i
           /\ (exact = {} /\ longer # {}) => resolution = AwaitingNextKey
           /\ (exact = {} /\ longer = {}) => resolution = NoKeybinding
           /\ resolution.kind \in {"Resolved", "AwaitingNextKey", "NoKeybinding"}
           /\ keybindings = <<>> => resolution = NoKeybinding

\* resolve_keys has resolved the pressed keys to a binding that is not the
\* first one while another binding starts with the same keys and goes on.
C11_Witness ==
    /\ resolution.kind = "Resolved"
    /\ keys # <<>>
    /\ \E i \in DOMAIN keybindings :
          /\ i > 1
          /\ IsExact(keybindings[i], keys)
          /\ resolution = Resolved(keybindings[i].output)
    /\ \E i \in DOMAIN keybindings : IsContinuation(keybindings[i], keys)

\* A step of add_keybinding: the builder is there before it, and after it
\* the builder is still there or an error has taken its place.
AddStep ==
    /\ kpc = "building"
    /\ kpc' \in {"building", "add_failed"}
    /\ <<keybindings, kpc>>' # <<keybindings, kpc>>

(* C12: add_keybinding returns an error whenever the builder already holds *)
(* a binding with the same key sequence, whether the new output equals the *)
(* held one or differs from it, and otherwise appends the binding; so      *)
(* after any sequence of successful calls no two bindings share a key      *)
(* sequence, and at most one binding matches the pressed sequence exactly, *)
(* whichever sequence is pressed.                                          *)
C12_DuplicatesRejected ==
    /\ [][AddStep =>
             IF \E i \in DOMAIN keybindings : keybindings[i].keys = adding'.keys
             THEN kpc' = "add_failed" /\ keybindings' = keybindings
             ELSE kpc' = "building" /\ keybindings' = Append(keybindings, adding')]_vars
    /\ [](kpc = "add_failed" =>
             \E i \in DOMAIN keybindings : keybindings[i].keys = adding.keys)
    /\ [](\A i, j \in DOMAIN keybindings :
             i # j => keybindings[i].keys # keybindings[j].keys)
    /\ [](Cardinality({i \in DOMAIN keybindings : IsExact(keybindings[i], keys)}) <= 1)

\* A builder holding two bindings whose keys differ in a modifier only has
\* rejected a third with the key sequence of the first and another output.
C12_Witness ==
    /\ kpc = "add_failed"
    /\ Len(keybindings) = 2
    /\ adding.keys # <<>>
    /\ keybindings[1].keys = adding.keys
    /\ keybindings[1].output # adding.output
    /\ Len(keybindings[2].keys) = Len(keybindings[1].keys)
    /\ \A i \in DOMAIN keybindings[1].keys :
          keybindings[2].keys[i].character = keybindings[1].keys[i].character

====
